---- MODULE Spec2Model ----
(***************************************************************************)
(* Tax-invoice analytics (giseon-seo/tax_data): the schema validators, the *)
(* outlier model wrapper and the IQR quality filter of utils.py and        *)
(* data_processor.py, as operations on one transaction table (Spec), and   *)
(* the run of the dashboard script app.py over them (DashSpec).            *)
(*                                                                         *)
(* TLA+ strings are ASCII, so the Korean column names and category values  *)
(* of the source are written with the names spec.md gives them:            *)
(*   month = 작성월, type = 거래유형, form = 발행형태, supply = 공급가액,  *)
(*   tax = 세액, account = 계정과목, anomaly = 이상치,                     *)
(*   Sale = 매출, Purchase = 매입, Expense = 비용, Revenue = 수익,         *)
(*   Electronic = 전자, Paper = 종이.                                      *)
(***************************************************************************)
EXTENDS Integers, Sequences, FiniteSets, TLC

VARIABLES
    df,      \* the table the operations are given (a pandas DataFrame object)
    ret,     \* what the last operation returned or raised
    msgs,    \* the st.error / st.warning / st.success messages of the last operation
    op,      \* the operation that ran last
    arg,     \* the contamination (in hundredths) of the detect_anomalies call
             \* just made, 0 after any other operation
    rng,     \* the state of numpy's global random generator
    orig,    \* history: df as it was constructed
    first,   \* history: the first detect_anomalies call that fitted a model
             \* (its contamination, rows, labels and the generator state then)
    ui       \* the sidebar widgets of a dashboard run: data source, uploaded
             \* file, month filter, contamination slider

vars == <<df, ret, msgs, op, arg, rng, orig, first, ui>>

----------------------------------------------------------------------------
(* Bounds of the model *)

\* rows of the tables that vary in their numeric cells
MaxRows == 4
\* rows of the tables that vary in their categorical cells
MaxCatRows == 2
\* rows of the large tables (spec.md: "large enough to avoid clamping, n >= 100")
LargeN == 100
\* trees of the modelled isolation forest (sklearn's n_estimators is 100)
NTrees == 2
\* path lengths of the isolation trees are kept in units of 1/PathScale
PathScale == 10000

----------------------------------------------------------------------------
(* Cells, rows, tables *)

\* A cell of a numeric column: a number, NaN, text that parses as the number
\* v ("12"), or text that does not parse ("abc").
Num(v) == [k |-> "num", v |-> v]
NaNCell == [k |-> "nan", v |-> 0]
NumTxt(v) == [k |-> "numtxt", v |-> v]
BadTxt == [k |-> "badtxt", v |-> 0]

\* The missing value of a categorical (object) column.
NaNStr == "NaN"

Row(m, t, f, s, x) ==
    [month |-> m, type |-> t, form |-> f, supply |-> s, tax |-> x,
     account |-> "absent", anomaly |-> 0]

AllRequired == {"month", "type", "form", "supply", "tax"}

\* pandas infers a column's dtype from its cells: numeric when every cell is a
\* number or NaN, object otherwise.
InferDtype(rows, c) ==
    IF \A i \in 1..Len(rows) : rows[i][c].k \in {"num", "nan"} THEN "num" ELSE "obj"

\* id 0 is the object the caller holds; an operation's df.copy() is object 1.
Table(cols, rows) ==
    [id |-> 0, cols |-> cols, rows |-> rows,
     dtype |-> [c \in {"supply", "tax"} |-> InferDtype(rows, c)]]

\* read_csv keeps every cell of a column it cannot parse as text.
AsText(rows, c, cell) ==
    IF InferDtype(rows, c) = "obj" /\ cell.k = "num"
    THEN NumTxt(cell.v) ELSE cell

AsRead(rows) ==
    [i \in 1..Len(rows) |->
        [rows[i] EXCEPT !.supply = AsText(rows, "supply", @),
                        !.tax = AsText(rows, "tax", @)]]

\* A table without rows: its numeric columns are object columns as read_csv
\* reads them and numeric ones after pd.to_numeric or a row filter.
EmptyTable(cols, dt) ==
    [id |-> 0, cols |-> cols, rows |-> <<>>,
     dtype |-> [c \in {"supply", "tax"} |-> dt]]

NoTable == [id |-> -1, cols |-> {}, rows |-> <<>>,
            dtype |-> [c \in {"supply", "tax"} |-> "obj"]]

SeqsUpTo(S, n) == UNION {[1..k -> S] : k \in 0..n}

\* The element of a one-element set. {e(x) : x \in {v}} is used below to name
\* an intermediate value x, as a local variable of the source does.
Only(S) == CHOOSE x \in S : TRUE

----------------------------------------------------------------------------
(* Messages and results *)

Msg(level, what, vals) == [level |-> level, what |-> what, vals |-> vals]

RetNone == [kind |-> "none", ok |-> FALSE, tbl |-> NoTable, exc |-> ""]
RetBool(b) == [kind |-> "bool", ok |-> b, tbl |-> NoTable, exc |-> ""]
RetTable(t) == [kind |-> "table", ok |-> TRUE, tbl |-> t, exc |-> ""]
RetRaise(e) == [kind |-> "raise", ok |-> FALSE, tbl |-> NoTable, exc |-> e]

Column(t, c) == [i \in 1..Len(t.rows) |-> t.rows[i][c]]

Range(s) == {s[i] : i \in 1..Len(s)}

\* The recursions over a sequence below halve it, so that their depth is the
\* logarithm of its length.
FirstHalf(s) == SubSeq(s, 1, Len(s) \div 2)
SecondHalf(s) == SubSeq(s, Len(s) \div 2 + 1, Len(s))

\* [x for x in s if x in keep]
RECURSIVE Filter(_, _)
Filter(s, keep) ==
    IF Len(s) = 0 THEN <<>>
    ELSE IF Len(s) = 1 THEN (IF s[1] \in keep THEN s ELSE <<>>)
    ELSE Filter(FirstHalf(s), keep) \o Filter(SecondHalf(s), keep)

\* The distinct elements of a sequence in order of first appearance
\* (Series.unique()).
RECURSIVE Unique(_)
Unique(s) ==
    IF Len(s) <= 1 THEN s
    ELSE LET a == Unique(FirstHalf(s))
             b == Unique(SecondHalf(s))
         IN  a \o Filter(b, Range(b) \ Range(a))

----------------------------------------------------------------------------
(* Schema validators *)

\* the two-column check of load_and_preprocess_data in place of the five
required_columns_only_amounts == <<"supply", "tax">>

\* utils.py:127 and data_processor.py:188
required_columns == <<"month", "type", "form", "supply", "tax">>

\* [col for col in required_columns if col not in df.columns]
missing_columns(t) == Filter(required_columns, Range(required_columns) \ t.cols)

\* the strict validator's list in place of the lenient one
valid_types_strict == {"Sale", "Purchase"}

\* utils.py:136
valid_types == {"Sale", "Purchase", "Expense", "Revenue"}

\* the lenient validator's list in place of the strict one
strict_valid_types_lenient == {"Sale", "Purchase", "Expense", "Revenue"}

\* data_processor.py:206
strict_valid_types == {"Sale", "Purchase"}

\* utils.py:142 and data_processor.py:213
valid_forms == {"Electronic", "Paper"}

\* df[~df[c].isin(valid)][c].unique()
invalid_values(t, c, valid) ==
    Unique(Filter(Column(t, c), Range(Column(t, c)) \ valid))

\* pd.to_numeric(series, errors='coerce'): numbers stay, text that parses
\* becomes its number, anything else becomes NaN.
to_numeric(cell) ==
    CASE cell.k = "num" -> cell
      [] cell.k = "numtxt" -> Num(cell.v)
      [] OTHER -> NaNCell

\* df[c] = pd.to_numeric(df[c], errors='coerce'): the column of the SAME
\* DataFrame object is replaced, and its dtype becomes numeric.
coerce_column(t, c) ==
    [t EXCEPT !.rows = [i \in 1..Len(t.rows) |->
                            [t.rows[i] EXCEPT ![c] = to_numeric(t.rows[i][c])]],
              !.dtype[c] = "num"]

\* utils.validate_tax_invoice_data: [val, msgs, df] (df as the call leaves it)
validate_tax_invoice_data(t) ==
    IF missing_columns(t) # <<>>
    THEN [val |-> FALSE,
          msgs |-> <<Msg("error", "missing_columns", missing_columns(t))>>,
          df |-> t]
    ELSE LET invalid_types == invalid_values(t, "type", valid_types)
             invalid_forms == invalid_values(t, "form", valid_forms)
         IN  [val |-> TRUE,
              msgs |-> (IF Len(invalid_types) > 0
                        THEN <<Msg("warning", "invalid_types", invalid_types)>>
                        ELSE <<>>)
                       \o (IF Len(invalid_forms) > 0
                           THEN <<Msg("warning", "invalid_forms", invalid_forms)>>
                           ELSE <<>>),
              df |-> coerce_column(coerce_column(t, "supply"), "tax")]

\* data_processor.validate_tax_invoice_data: [val, msgs]
strict_validate_tax_invoice_data(t) ==
    IF missing_columns(t) # <<>>
    THEN [val |-> FALSE,
          msgs |-> <<Msg("error", "missing_columns", missing_columns(t))>>]
    ELSE IF t.dtype["supply"] # "num"
    THEN [val |-> FALSE, msgs |-> <<Msg("error", "supply_not_numeric", <<>>)>>]
    ELSE IF t.dtype["tax"] # "num"
    THEN [val |-> FALSE, msgs |-> <<Msg("error", "tax_not_numeric", <<>>)>>]
    ELSE IF Len(invalid_values(t, "type", strict_valid_types)) > 0
    THEN [val |-> FALSE,
          msgs |-> <<Msg("error", "invalid_types",
                         invalid_values(t, "type", strict_valid_types))>>]
    ELSE IF Len(invalid_values(t, "form", valid_forms)) > 0
    THEN [val |-> FALSE,
          msgs |-> <<Msg("error", "invalid_forms",
                         invalid_values(t, "form", valid_forms))>>]
    ELSE [val |-> TRUE, msgs |-> <<Msg("success", "validated", <<>>)>>]

----------------------------------------------------------------------------
(* Random generators *)

\* One step of the modelled generator (numpy's is MT19937; the model keeps
\* only that a generator is a state advanced deterministically by each draw).
rnd(s) == (13 * s + 7) % 251

\* np.random.seed(n) / RandomState(n)
Seed(n) == n % 251

\* utils.py:69: np.random.seed(42)
sample_seed == 42

\* utils.py:651: random_state=42
random_state == 42

\* random_state=None in place of 42: the forest draws from the global generator.
forest_seed_global(g) == g

\* The generator IsolationForest(random_state=42) draws from: its own, seeded
\* with 42 whatever the state g of the global generator is.
forest_seed(g) == Seed(random_state)

----------------------------------------------------------------------------
(* Outlier model: sklearn.ensemble.IsolationForest as detect_anomalies uses it *)

\* 1/a + ... + 1/b
RECURSIVE HarmonicSum(_, _)
HarmonicSum(a, b) ==
    IF a > b THEN 0
    ELSE IF a = b THEN PathScale \div a
    ELSE HarmonicSum(a, (a + b) \div 2) + HarmonicSum((a + b) \div 2 + 1, b)

Harmonic(k) == HarmonicSum(1, k)

\* ln(k) + Euler's constant, as H(k) - 1/(2k) + 1/(12 k^2)
LnPlusGamma(k) == Harmonic(k) - PathScale \div (2 * k) + PathScale \div (12 * k * k)

\* sklearn _average_path_length: 0 for n <= 1, 1 for n = 2,
\* otherwise 2 (ln(n-1) + gamma) - 2 (n-1)/n
AveragePathLength(n) ==
    IF n <= 1 THEN 0
    ELSE IF n = 2 THEN PathScale
    ELSE 2 * LnPlusGamma(n - 1) - (2 * (n - 1) * PathScale) \div n

RECURSIVE CeilLog2(_)
CeilLog2(n) == IF n <= 1 THEN 0 ELSE 1 + CeilLog2((n + 1) \div 2)

\* max_depth = ceil(log2(max(max_samples, 2))), max_samples = min(256, n)
MaxDepth(n) == IF n <= 2 THEN 1 ELSE CeilLog2(n)

SetMin(S) == CHOOSE x \in S : \A y \in S : x <= y
SetMax(S) == CHOOSE x \in S : \A y \in S : x >= y

\* One isolation tree over the points X[i], i in S, grown from generator state
\* s: [path |-> i -> path length of X[i], s |-> the state after]. A node is a
\* leaf when it holds one point, when the depth limit is reached or when its
\* points are identical; otherwise a random non-constant feature is split at
\* a random threshold between its minimum and maximum.
RECURSIVE iTree(_, _, _, _, _)
iTree(X, S, depth, limit, s) ==
    LET feats == {f \in {"supply", "tax"} : Cardinality({X[i][f] : i \in S}) > 1}
    IN  IF Cardinality(S) <= 1 \/ depth >= limit \/ feats = {}
        THEN Only({[path |-> [i \in S |-> h], s |-> s]
                   : h \in {depth * PathScale + AveragePathLength(Cardinality(S))}})
        ELSE LET s1 == rnd(s)
                 f == IF Cardinality(feats) = 1 THEN CHOOSE g \in feats : TRUE
                      ELSE IF s1 % 2 = 0 THEN "supply" ELSE "tax"
                 s2 == rnd(s1)
                 lo == SetMin({X[i][f] : i \in S})
                 hi == SetMax({X[i][f] : i \in S})
                 thr == lo + (s2 % (hi - lo))
             IN  Only({Only({Only({
                     [path |-> [i \in S |-> IF i \in L THEN lt.path[i]
                                                       ELSE rt.path[i]],
                      s |-> rt.s]
                     : rt \in {iTree(X, S \ L, depth + 1, limit, lt.s)}})
                     : lt \in {iTree(X, L, depth + 1, limit, s2)}})
                     : L \in {{i \in S : X[i][f] <= thr}}})

\* The summed path length of every point over the trees of the forest.
RECURSIVE ForestPaths(_, _, _)
ForestPaths(X, trees, s) ==
    IF trees = 0 THEN [i \in 1..Len(X) |-> 0]
    ELSE LET t == iTree(X, 1..Len(X), 0, MaxDepth(Len(X)), s)
             rest == ForestPaths(X, trees - 1, t.s)
         IN  [i \in 1..Len(X) |-> t.path[i] + rest[i]]

\* The k-th smallest (k = 0, 1, ...) of the values v[i].
KthSmallest(v, k) ==
    CHOOSE x \in Range(v) :
        /\ Cardinality({i \in 1..Len(v) : v[i] < x}) <= k
        /\ k < Cardinality({i \in 1..Len(v) : v[i] <= x})

\* 100 * np.percentile(scores, 100 * contamination) by linear interpolation;
\* c is the contamination in hundredths.
Offset100(scores, c) ==
    LET n == Len(scores)
        lo == (c * (n - 1)) \div 100
        fr == (c * (n - 1)) % 100
        a == KthSmallest(scores, lo)
        b == KthSmallest(scores, IF lo + 1 < n THEN lo + 1 ELSE lo)
    IN  100 * a + fr * (b - a)

\* a score equal to the offset labelled anomalous too
is_anomaly_inclusive(score100, offset100) == score100 <= offset100

\* IsolationForest.predict: decision_function(X) < 0, that is score < offset_
\* (both sides times 100). The score of sklearn is a strictly increasing
\* function of the mean path length, so the comparison is made on the path
\* lengths.
is_anomaly(score100, offset100) == score100 < offset100

\* fit_predict(features): -1 anomalous, 1 normal
\* (\o <<>> leaves the scores as they are: it has TLC compute them once)
fit_predict(X, c, s) ==
    Only({Only({
        [i \in 1..Len(X) |->
            IF is_anomaly(100 * scores[i], offset100) THEN -1 ELSE 1]
        : offset100 \in {Offset100(scores, c)}})
        : scores \in {ForestPaths(X, NTrees, s) \o <<>>}})

\* the value sklearn's input validation makes of a cell
FeatureOf(row) == [supply |-> row.supply.v, tax |-> row.tax.v]

\* a test for a table without columns only
df_empty_without_columns(t) == t.cols = {}

\* df.empty
df_empty(t) == Len(t.rows) = 0 \/ t.cols = {}

\* utils.detect_anomalies(df, contamination), contamination c in hundredths,
\* with the global generator in state g. IsolationForest.fit raises a
\* ValueError for a contamination outside (0, 0.5], for an array of 0 samples
\* and for a NaN or non-numeric feature.
detect_anomalies(t, c, g) ==
    IF df_empty(t) THEN RetTable(t)
    ELSE IF ~({"supply", "tax"} \subseteq t.cols) THEN RetRaise("KeyError")
    ELSE IF ~(0 < c /\ c <= 50) THEN RetRaise("ValueError")
    ELSE IF Len(t.rows) = 0 THEN RetRaise("ValueError")
    ELSE IF \E i \in 1..Len(t.rows) :
               t.rows[i].supply.k \in {"nan", "badtxt"}
               \/ t.rows[i].tax.k \in {"nan", "badtxt"}
    THEN RetRaise("ValueError")
    ELSE LET X == [i \in 1..Len(t.rows) |-> FeatureOf(t.rows[i])]
             anomalies == fit_predict(X, c, forest_seed(g))
         IN  RetTable([t EXCEPT !.id = 1,
                                !.cols = @ \cup {"anomaly"},
                                !.rows = [i \in 1..Len(t.rows) |->
                                    [t.rows[i] EXCEPT !.anomaly = anomalies[i]]]])

----------------------------------------------------------------------------
(* Rule-based quality filter *)

\* The numbers of a column, NaN skipped, in row order.
RECURSIVE NumbersOf(_)
NumbersOf(cells) ==
    IF Len(cells) = 0 THEN <<>>
    ELSE IF Len(cells) = 1
    THEN (IF cells[1].k = "num" THEN <<cells[1].v>> ELSE <<>>)
    ELSE NumbersOf(FirstHalf(cells)) \o NumbersOf(SecondHalf(cells))

\* 4 * Series.quantile(q / 4) of the numbers v (linear interpolation between
\* the order statistics around position (q / 4) * (n - 1)); v is not empty.
Quantile4(v, q) ==
    LET n == Len(v)
        lo == (q * (n - 1)) \div 4
        fr == (q * (n - 1)) % 4
        a == KthSmallest(v, lo)
        b == KthSmallest(v, IF lo + 1 < n THEN lo + 1 ELSE lo)
    IN  4 * a + fr * (b - a)

\* a value equal to a bound flagged too
is_outlier_inclusive(v8, lower8, upper8) == v8 <= lower8 \/ v8 >= upper8

\* (series < lower_bound) | (series > upper_bound), all sides times 8
is_outlier(v8, lower8, upper8) == v8 < lower8 \/ v8 > upper8

\* detect_outliers_iqr(series) of a numeric column: the mask of flagged rows.
\* Q1 and Q3 are 4 times the quartiles, the bounds 8 times the source's.
\* Every comparison with NaN is False: a NaN cell is not flagged, and nothing
\* is flagged when the quartiles are NaN (no number in the column).
detect_outliers_iqr(cells) ==
    LET flags(v, Q1, Q3) ==
            LET IQR == Q3 - Q1
                lower_bound == 2 * Q1 - 3 * IQR
                upper_bound == 2 * Q3 + 3 * IQR
            IN  [i \in 1..Len(cells) |->
                    /\ cells[i].k = "num"
                    /\ is_outlier(8 * cells[i].v, lower_bound, upper_bound)]
    IN  Only({IF v = <<>> THEN [i \in 1..Len(cells) |-> FALSE]
              ELSE Only({Only({flags(v, Q1, Q3)
                         : Q3 \in {Quantile4(v, 3)}})
                         : Q1 \in {Quantile4(v, 1)}})
              : v \in {NumbersOf(cells)}})

\* whether a cell of column c is missing (isnull)
IsNull(row, c) ==
    IF c \in {"supply", "tax"} THEN row[c].k = "nan"
    ELSE IF c = "anomaly" THEN FALSE
    ELSE row[c] = NaNStr

\* the rows s[i] with keep[i], i from lo to hi, in order
RECURSIVE SelectRows(_, _, _, _)
SelectRows(s, keep, lo, hi) ==
    IF lo > hi THEN <<>>
    ELSE IF lo = hi THEN (IF keep[lo] THEN <<s[lo]>> ELSE <<>>)
    ELSE SelectRows(s, keep, lo, (lo + hi) \div 2)
         \o SelectRows(s, keep, (lo + hi) \div 2 + 1, hi)

(* Series aggregates *)

RECURSIVE SumSeq(_)
SumSeq(v) ==
    IF Len(v) = 0 THEN 0
    ELSE IF Len(v) = 1 THEN v[1]
    ELSE SumSeq(FirstHalf(v)) + SumSeq(SecondHalf(v))

\* df[df[c] == value]
RowsWhere(t, c, value) ==
    SelectRows(t.rows, [i \in 1..Len(t.rows) |-> t.rows[i][c] = value],
               1, Len(t.rows))

\* the numbers of column c of the rows, NaN skipped
NumbersIn(rows, c) == NumbersOf([i \in 1..Len(rows) |-> rows[i][c]])

\* Series.max() and Series.min(): NaN skipped, NaN when no number is left
series_max(v) == IF v = <<>> THEN NaNCell ELSE Num(SetMax(Range(v)))
series_min(v) == IF v = <<>> THEN NaNCell ELSE Num(SetMin(Range(v)))

\* Series.std() (ddof = 1) of the numbers v, as its square num / den:
\* (n sum(x^2) - sum(x)^2) / (n (n - 1)); NaN for fewer than two numbers
series_std(v) ==
    IF Len(v) < 2 THEN [k |-> "nan", num |-> 0, den |-> 1]
    ELSE [k |-> "num",
          num |-> Len(v) * SumSeq([i \in 1..Len(v) |-> v[i] * v[i]])
                  - SumSeq(v) * SumSeq(v),
          den |-> Len(v) * (Len(v) - 1)]

\* round(num / den) as numpy rounds: to the nearest integer, a half to the
\* even neighbour (num >= 0, den > 0)
RoundDiv(num, den) ==
    LET q == num \div den
        r == num % den
    IN  IF 2 * r < den THEN q
        ELSE IF 2 * r > den THEN q + 1
        ELSE IF q % 2 = 0 THEN q ELSE q + 1

\* round(sqrt(num / den)), rounded the same way
RoundSqrt(num, den) ==
    LET k == CHOOSE j \in 0..(num \div den + 1) :
                 /\ 4 * num <= (2 * j + 1) * (2 * j + 1) * den
                 /\ j = 0 \/ 4 * num > (2 * j - 1) * (2 * j - 1) * den
    IN  IF 4 * num = (2 * k + 1) * (2 * k + 1) * den /\ k % 2 = 1
        THEN k + 1 ELSE k

\* one aggregate of groupby(...).agg(...).round(0) over the numbers v of a
\* group (v is not empty: a group has a row and the clean subset no NaN)
Aggregate(a, v) ==
    CASE a = "count" -> Num(Len(v))
      [] a = "sum" -> Num(SumSeq(v))
      [] a = "mean" -> Num(RoundDiv(SumSeq(v), Len(v)))
      [] a = "std" -> (IF series_std(v).k = "nan" THEN NaNCell
                       ELSE Num(RoundSqrt(series_std(v).num, series_std(v).den)))
      [] a = "min" -> series_min(v)
      [] a = "max" -> series_max(v)

\* clean_df.groupby(key).agg({'공급가액': supply_aggs, '세액': tax_aggs}).round(0)
GroupStats(rows, key, supply_aggs, tax_aggs) ==
    [g \in {rows[i][key] : i \in 1..Len(rows)} |->
        Only({[supply |-> [a \in supply_aggs |-> Aggregate(a, NumbersIn(grp, "supply"))],
               tax |-> [a \in tax_aggs |-> Aggregate(a, NumbersIn(grp, "tax"))]]
              : grp \in {SelectRows(rows, [i \in 1..Len(rows) |-> rows[i][key] = g],
                                   1, Len(rows))}})]

\* utils.py:772-773, 778-779, 784-785: the aggregates asked for per grouping
type_aggs == [supply |-> {"count", "sum", "mean", "std", "min", "max"},
              tax |-> {"sum", "mean", "std", "min", "max"}]
form_aggs == [supply |-> {"count", "sum", "mean", "std"},
              tax |-> {"sum", "mean", "std"}]
monthly_aggs == [supply |-> {"count", "sum", "mean"}, tax |-> {"sum", "mean"}]

\* the dict of the three grouped tables (거래유형_통계, 발행형태_통계, 월별_통계)
clean_detailed_stats(clean_df) ==
    [type_stats |-> GroupStats(clean_df, "type", type_aggs.supply, type_aggs.tax),
     form_stats |-> GroupStats(clean_df, "form", form_aggs.supply, form_aggs.tax),
     monthly_stats |-> GroupStats(clean_df, "month", monthly_aggs.supply,
                                  monthly_aggs.tax)]

\* None in place of the grouped tables
NoStats == <<>>

\* a filter that also drops the rows the outlier model labelled -1
clean_rows_reading_label(t, supply_outliers, tax_outliers) ==
    SelectRows(t.rows,
               [i \in 1..Len(t.rows) |->
                   /\ \A c \in t.cols : ~IsNull(t.rows[i], c)
                   /\ ~supply_outliers[i]
                   /\ ~tax_outliers[i]
                   /\ "anomaly" \in t.cols => t.rows[i].anomaly # -1],
               1, Len(t.rows))

\* df.copy().dropna()[~supply_outliers][~tax_outliers]
clean_rows(t, supply_outliers, tax_outliers) ==
    SelectRows(t.rows,
               [i \in 1..Len(t.rows) |->
                   /\ \A c \in t.cols : ~IsNull(t.rows[i], c)
                   /\ ~supply_outliers[i]
                   /\ ~tax_outliers[i]],
               1, Len(t.rows))

\* the share of the removed rows in place of the share of the clean ones
data_quality_ratio_of_removed(clean_count, original_count) ==
    100 * (original_count - clean_count)

\* (len(clean_df) / len(df)) * 100, as the numerator over len(df)
data_quality_ratio(clean_count, original_count) == 100 * clean_count

RetClean(stats, loc, detailed) ==
    [kind |-> "clean", ok |-> TRUE, tbl |-> NoTable, exc |-> "",
     stats |-> stats, loc |-> loc, detailed |-> detailed]

\* (None, None, None)
RetNoData == [kind |-> "nodata", ok |-> FALSE, tbl |-> NoTable, exc |-> ""]

\* utils.create_clean_data_analysis(df): clean_stats and, as loc, the masks
\* and the clean subset it computes on the way. Ratios are kept as their
\* numerator over len(df): quality ratio = 100 * clean / len(df). quantile()
\* of an object column raises a TypeError.
create_clean_data_analysis(t) ==
    IF df_empty(t) THEN RetNoData
    ELSE IF "supply" \notin t.cols THEN RetRaise("KeyError")
    ELSE IF t.dtype["supply"] # "num" THEN RetRaise("TypeError")
    ELSE IF "tax" \notin t.cols THEN RetRaise("KeyError")
    ELSE IF t.dtype["tax"] # "num" THEN RetRaise("TypeError")
    ELSE LET n == Len(t.rows)
             result(supply_outliers, tax_outliers, clean_df) ==
                 LET clean_stats ==
                         [original_count |-> n,
                          clean_count |-> Len(clean_df),
                          removed_count |-> n - Len(clean_df),
                          quality_ratio_num |-> data_quality_ratio(Len(clean_df), n),
                          missing_ratio_num |->
                              100 * Cardinality({<<c, i>> \in t.cols \X (1..n) :
                                                    IsNull(t.rows[i], c)}),
                          outlier_ratio_num |->
                              100 * Cardinality({i \in 1..n :
                                      supply_outliers[i] \/ tax_outliers[i]}),
                          ratio_den |-> n]
                 IN  IF Len(clean_df) > 0
                        /\ ~({"type", "form", "month"} \subseteq t.cols)
                     THEN RetRaise("KeyError")
                     ELSE RetClean(clean_stats,
                                   [supply_outliers |-> supply_outliers,
                                    tax_outliers |-> tax_outliers,
                                    clean_df |-> clean_df],
                                   IF Len(clean_df) > 0
                                   THEN clean_detailed_stats(clean_df)
                                   ELSE NoStats)
         IN  Only({Only({Only({result(so, to, cd)
                 : cd \in {clean_rows(t, so, to)}})
                 : to \in {detect_outliers_iqr(Column(t, "tax"))}})
                 : so \in {detect_outliers_iqr(Column(t, "supply"))}})

----------------------------------------------------------------------------
(* Quality chart *)

\* go.Pie(values=..., textinfo='label+percent'): the percentage drawn at a
\* slice is its value over the sum of all values, kept as [num, den]
pie_percent(values) ==
    [k \in DOMAIN values |-> [num |-> 100 * values[k], den |-> SumSeq(values)]]

\* (fig_quality, fig_distribution): the quality figure as quality_data and the
\* percentages the pie draws, the distribution figure as the two series of
\* its histograms (empty for go.Figure())
RetFigures(quality, distribution) ==
    [kind |-> "figures", ok |-> TRUE, tbl |-> NoTable, exc |-> "",
     quality |-> quality, distribution |-> distribution]

\* (go.Figure(), go.Figure())
NoFigures == RetFigures([no_data |-> TRUE], [supply |-> <<>>, tax |-> <<>>])

\* utils.create_clean_data_visualization(df). The slices are 원본 데이터,
\* 깨끗한 데이터 and 제거된 데이터 in this order; 비율 is kept as its numerators
\* over len(df).
create_clean_data_visualization(t) ==
    IF df_empty(t) THEN NoFigures
    ELSE IF "supply" \notin t.cols THEN RetRaise("KeyError")
    ELSE IF t.dtype["supply"] # "num" THEN RetRaise("TypeError")
    ELSE IF "tax" \notin t.cols THEN RetRaise("KeyError")
    ELSE IF t.dtype["tax"] # "num" THEN RetRaise("TypeError")
    ELSE LET n == Len(t.rows)
             figures(supply_outliers, tax_outliers) ==
                 LET dropped == {i \in 1..n : \A c \in t.cols : ~IsNull(t.rows[i], c)}
                     kept_supply == {i \in dropped : ~supply_outliers[i]}
                     kept == {i \in kept_supply : ~tax_outliers[i]}
                     clean_df == SelectRows(t.rows, [i \in 1..n |-> i \in kept], 1, n)
                     counts == <<n, Len(clean_df), n - Len(clean_df)>>
                 IN  RetFigures(
                         [no_data |-> FALSE,
                          counts |-> counts,
                          ratio_num |-> <<100 * n, 100 * Len(clean_df),
                                          100 * (n - Len(clean_df))>>,
                          ratio_den |-> n,
                          values |-> counts,
                          percent |-> pie_percent(counts)],
                         [supply |-> Column([rows |-> clean_df], "supply"),
                          tax |-> Column([rows |-> clean_df], "tax")])
         IN  Only({Only({figures(so, to)
                 : to \in {detect_outliers_iqr(Column(t, "tax"))}})
                 : so \in {detect_outliers_iqr(Column(t, "supply"))}})

----------------------------------------------------------------------------
(* Quality report *)

\* df.isnull().sum()[c]
missing_count(t, c) ==
    Cardinality({i \in 1..Len(t.rows) : IsNull(t.rows[i], c)})

\* every flag of the mask of either field's rule
report_outliers_of_either(t, c) ==
    [i \in 1..Len(t.rows) |->
        detect_outliers_iqr(Column(t, "supply"))[i]
        \/ detect_outliers_iqr(Column(t, "tax"))[i]]

\* supply_outliers = detect_outliers_iqr(df['공급가액']), and the same for 세액
report_outliers(t, c) == detect_outliers_iqr(Column(t, c))

\* mask.sum()
MaskSum(mask) == Cardinality({i \in DOMAIN mask : mask[i]})

\* twice Series.median() of the numbers v (v is not empty)
Median2(v) ==
    KthSmallest(v, (Len(v) - 1) \div 2) + KthSmallest(v, Len(v) \div 2)

\* the string "데이터가 없습니다."
NoDataReport == [no_data |-> TRUE]

RetReport(report) ==
    [kind |-> "report", ok |-> TRUE, tbl |-> NoTable, exc |-> "",
     report |-> report]

\* utils.create_data_quality_report(df): the report as the numbers its lines
\* print. A column without a missing value is printed as "결측치 없음" (count
\* 0); percentages are the count over total (len(clean_df) / len(df) would
\* raise ZeroDivisionError for len(df) = 0); means and medians are printed
\* rounded (:,.0f).
create_data_quality_report(t) ==
    IF df_empty(t) THEN RetReport(NoDataReport)
    ELSE IF "supply" \notin t.cols THEN RetRaise("KeyError")
    ELSE IF t.dtype["supply"] # "num" THEN RetRaise("TypeError")
    ELSE IF "tax" \notin t.cols THEN RetRaise("KeyError")
    ELSE IF t.dtype["tax"] # "num" THEN RetRaise("TypeError")
    ELSE LET n == Len(t.rows)
             summary(clean_df) ==
                 LET sv == NumbersIn(clean_df, "supply")
                     tv == NumbersIn(clean_df, "tax")
                 IN  [supply_mean |-> RoundDiv(SumSeq(sv), Len(sv)),
                      supply_median |-> RoundDiv(Median2(sv), 2),
                      tax_mean |-> RoundDiv(SumSeq(tv), Len(tv)),
                      tax_median |-> RoundDiv(Median2(tv), 2),
                      type_stats |-> Only({[g \in DOMAIN gs |-> gs[g].supply]
                          : gs \in {GroupStats(clean_df, "type",
                                               {"count", "sum", "mean"}, {})}})]
             result(supply_outliers, tax_outliers, clean_df) ==
                 IF n = 0 THEN RetRaise("ZeroDivisionError")
                 ELSE IF Len(clean_df) > 0 /\ "type" \notin t.cols
                 THEN RetRaise("KeyError")
                 ELSE RetReport(
                     [no_data |-> FALSE,
                      total |-> n,
                      missing |-> [c \in t.cols |-> missing_count(t, c)],
                      supply_outlier_count |-> MaskSum(supply_outliers),
                      tax_outlier_count |-> MaskSum(tax_outliers),
                      clean_count |-> Len(clean_df),
                      quality_ratio_num |-> 100 * Len(clean_df),
                      removed_count |-> n - Len(clean_df),
                      summary |-> IF Len(clean_df) > 0 THEN summary(clean_df)
                                  ELSE NoStats])
         IN  Only({Only({Only({result(so, to, cd)
                 : cd \in {clean_rows(t, so, to)}})
                 : to \in {report_outliers(t, "tax")}})
                 : so \in {report_outliers(t, "supply")}})

----------------------------------------------------------------------------
(* KPI aggregator *)

\* The keys of the mapping calculate_kpis returns are written
\*   total_Sale = 총_매출, total_Purchase = 총_매입, total_Expense = 총_비용,
\*   total_Revenue = 총_수익, count_Sale = 매출_건수, count_Purchase = 매입_건수,
\*   count_Expense = 비용_건수, count_Revenue = 수익_건수,
\*   electronic_ratio = 전자_발행_비율, max_supply = 최대_거래,
\*   min_supply = 최소_거래, std_supply = 거래_표준편차.

\* the sum over the rows of the type that neither IQR rule flags
type_total_without_outliers(t, ty) ==
    LET so == detect_outliers_iqr(Column(t, "supply"))
        to == detect_outliers_iqr(Column(t, "tax"))
        keep == [i \in 1..Len(t.rows) |->
                    t.rows[i].type = ty /\ ~so[i] /\ ~to[i]]
    IN  SumSeq(NumbersIn(SelectRows(t.rows, keep, 1, Len(t.rows)), "supply"))

\* df[df['거래유형'] == ty]['공급가액'].sum(): NaN counts as 0
type_total(t, ty) == SumSeq(NumbersIn(RowsWhere(t, "type", ty), "supply"))

\* len(df[df['거래유형'] == ty])
type_count(t, ty) == Len(RowsWhere(t, "type", ty))

\* (len(df[df['발행형태'] == '전자']) / len(df)) * 100, as num / den
electronic_ratio(t) ==
    [num |-> 100 * Len(RowsWhere(t, "form", "Electronic")), den |-> Len(t.rows)]

RetKpis(kpis) ==
    [kind |-> "kpis", ok |-> TRUE, tbl |-> NoTable, exc |-> "", kpis |-> kpis]

\* utils.calculate_kpis(df). The dict is built entry by entry: a missing
\* column raises KeyError, len(df) = 0 would raise ZeroDivisionError at the
\* ratio, and std() of a text column raises TypeError.
calculate_kpis(t) ==
    IF df_empty(t) THEN RetKpis(<<>>)
    ELSE IF ~({"type", "supply", "form"} \subseteq t.cols) THEN RetRaise("KeyError")
    ELSE IF Len(t.rows) = 0 THEN RetRaise("ZeroDivisionError")
    ELSE IF t.dtype["supply"] # "num" THEN RetRaise("TypeError")
    ELSE Only({RetKpis(
            [total_Sale |-> type_total(t, "Sale"),
             total_Purchase |-> type_total(t, "Purchase"),
             total_Expense |-> type_total(t, "Expense"),
             total_Revenue |-> type_total(t, "Revenue"),
             count_Sale |-> type_count(t, "Sale"),
             count_Purchase |-> type_count(t, "Purchase"),
             count_Expense |-> type_count(t, "Expense"),
             count_Revenue |-> type_count(t, "Revenue"),
             electronic_ratio |-> electronic_ratio(t),
             max_supply |-> series_max(v),
             min_supply |-> series_min(v),
             std_supply |-> series_std(v)])
         : v \in {NumbersIn(t.rows, "supply")}})

----------------------------------------------------------------------------
(* Input tables *)

\* A row every later check of a validator would object to.
BadRow == Row("2024-01", "Other", "Fax", BadTxt, BadTxt)

\* Tables with any subset of the required columns.
SchemaTables ==
    {Table(cols, <<BadRow>>) : cols \in SUBSET AllRequired}
    \cup {EmptyTable(cols, dt) : cols \in SUBSET AllRequired, dt \in {"num", "obj"}}

CatRows ==
    {Row("2024-01", t, f, Num(10), Num(1)) :
        t \in {"Sale", "Expense", "Other"}, f \in {"Electronic", "Fax"}}
    \cup {Row("2024-01", "Sale", "Electronic", BadTxt, Num(1))}

\* Tables with every required column whose categorical cells vary.
CatTables ==
    {Table(AllRequired, AsRead(rows)) :
        rows \in SeqsUpTo(CatRows, MaxCatRows) \ {<<>>}}

\* (supply, tax) of the rows of the tables whose numeric cells vary
NumPairs ==
    <<<<Num(0), Num(0)>>, <<Num(1), Num(1)>>, <<Num(2), Num(0)>>, <<NaNCell, Num(0)>>>>

NumRows ==
    [k \in DOMAIN NumPairs |->
        Row("2024-01", "Sale", "Electronic", NumPairs[k][1], NumPairs[k][2])]

\* Valid tables whose amounts vary: every choice of up to MaxRows of the rows,
\* with repetition, in the order of NumRows (the rows differ in their amounts
\* only, and no operation reads the position of a row).
NumTables ==
    {Table(AllRequired, [i \in DOMAIN ix |-> NumRows[ix[i]]]) :
        ix \in {s \in SeqsUpTo(DOMAIN NumRows, MaxRows) \ {<<>>} :
                   \A i \in 1..(Len(s) - 1) : s[i] <= s[i + 1]}}

\* Large tables: every row the same, and every row but one the same.
ConstTable ==
    Table(AllRequired,
          [i \in 1..LargeN |-> Row("2024-01", "Sale", "Electronic", Num(1), Num(0))])

SpikeTable ==
    Table(AllRequired,
          [i \in 1..LargeN |->
              Row("2024-01", "Sale", "Electronic",
                  IF i = 2 THEN Num(9) ELSE Num(1), Num(0))])

LargeTables == {ConstTable, SpikeTable}

\* Rows of the extended schema (with 계정과목): complete, lacking only the
\* optional 계정과목, and lacking the required 거래유형.
AccountRows ==
    {[Row("2024-01", "Sale", "Electronic", Num(1), Num(1)) EXCEPT !.account = a]
        : a \in {"acct", NaNStr}}
    \cup {[Row("2024-01", NaNStr, "Electronic", Num(1), Num(1))
              EXCEPT !.account = "acct"]}

\* Tables of the extended schema.
AccountTables ==
    {Table(AllRequired \cup {"account"}, rows) :
        rows \in SeqsUpTo(AccountRows, MaxCatRows) \ {<<>>}}

\* A table whose largest supply hides the next one from the IQR rule:
\* supply 0, 0, 0, 0, 1, 9 with a constant tax.
CascadeTable ==
    Table(AllRequired,
          [i \in 1..6 |->
              Row("2024-01", "Sale", "Electronic",
                  Num(CASE i = 5 -> 1 [] i = 6 -> 9 [] OTHER -> 0), Num(0))])

InputTables ==
    SchemaTables \cup CatTables \cup NumTables \cup LargeTables
    \cup AccountTables \cup {CascadeTable}

\* contamination values, in hundredths
Contaminations == {0, 10, 30, 60, 100}

\* create_sample_data(): four of its 1000 rows, one of each transaction type,
\* tax = int(supply * 0.1)
SampleData ==
    [id |-> 1,
     cols |-> AllRequired \cup {"account"},
     rows |-> <<[Row("2024-01", "Sale", "Electronic", Num(50), Num(5))
                    EXCEPT !.account = "acct"],
                [Row("2024-01", "Purchase", "Paper", Num(30), Num(3))
                    EXCEPT !.account = "acct"],
                [Row("2024-02", "Expense", "Electronic", Num(10), Num(1))
                    EXCEPT !.account = "acct"],
                [Row("2024-02", "Revenue", "Paper", Num(20), Num(2))
                    EXCEPT !.account = "acct"]>>,
     dtype |-> [c \in {"supply", "tax"} |-> "num"]]

----------------------------------------------------------------------------
(* Operations *)

\* uploaded_file = None
NoFile == [name |-> "none", readable |-> FALSE, table |-> NoTable]

\* no dashboard run: the operations are called on their own
NoUi == [data_source |-> "none", uploaded_file |-> NoFile,
         month_filter |-> "all", contamination |-> 0]

Init ==
    /\ ui = NoUi
    /\ df \in InputTables
    /\ orig = df
    /\ ret = RetNone
    /\ msgs = <<>>
    /\ op = "init"
    /\ arg = 0
    /\ rng = 0
    /\ first = RetNone

UtilsValidate ==
    \E r \in {validate_tax_invoice_data(df)} :
        /\ df' = r.df
        /\ ret' = RetBool(r.val)
        /\ msgs' = r.msgs
        /\ op' = "validate"
        /\ arg' = 0
        /\ UNCHANGED <<rng, orig, first, ui>>

StrictValidate ==
    \E r \in {strict_validate_tax_invoice_data(df)} :
        /\ ret' = RetBool(r.val)
        /\ msgs' = r.msgs
        /\ op' = "strict_validate"
        /\ arg' = 0
        /\ UNCHANGED <<df, rng, orig, first, ui>>

DetectAnomalies ==
    \E c \in Contaminations :
        \E r \in {detect_anomalies(df, c, rng)} :
            /\ ret' = r
            /\ arg' = c
            /\ msgs' = <<>>
            /\ op' = "detect"
            /\ first' = IF first.kind = "none" /\ r.kind = "table" /\ r.tbl.id = 1
                         THEN [kind |-> "call", c |-> c, rows |-> df.rows,
                               g |-> rng, labels |-> Column(r.tbl, "anomaly")]
                         ELSE first
            /\ UNCHANGED <<df, rng, orig, ui>>

CalculateKpis ==
    /\ ret' = calculate_kpis(df)
    /\ msgs' = <<>>
    /\ op' = "kpis"
    /\ arg' = 0
    /\ UNCHANGED <<df, rng, orig, first, ui>>

CreateCleanDataAnalysis ==
    /\ ret' = create_clean_data_analysis(df)
    /\ msgs' = <<>>
    /\ op' = "clean"
    /\ arg' = 0
    /\ UNCHANGED <<df, rng, orig, first, ui>>

\* create_data_quality_report(df)
CreateDataQualityReport ==
    /\ \E r \in {create_data_quality_report(df)} : ret' = r
    /\ msgs' = <<>>
    /\ op' = "report"
    /\ arg' = 0
    /\ UNCHANGED <<df, rng, orig, first, ui>>

\* create_clean_data_visualization(df)
CreateCleanDataVisualization ==
    /\ \E r \in {create_clean_data_visualization(df)} : ret' = r
    /\ msgs' = <<>>
    /\ op' = "visualization"
    /\ arg' = 0
    /\ UNCHANGED <<df, rng, orig, first, ui>>

RetStats(stats) ==
    [kind |-> "stats", ok |-> TRUE, tbl |-> NoTable, exc |-> "", stats |-> stats]

\* app.py:369-371, all that main derives from the labelled table: the number
\* of rows labelled -1, the number of rows and the anomaly ratio (as its
\* numerator over total_count, 0 over 1 when total_count is 0).
\* df_with_anomalies['이상치'] raises KeyError on a table without the label.
anomaly_statistics(t) ==
    IF "anomaly" \notin t.cols THEN RetRaise("KeyError")
    ELSE LET anomaly_count ==
                 Cardinality({i \in 1..Len(t.rows) : t.rows[i].anomaly = -1})
             total_count == Len(t.rows)
         IN  RetStats([anomaly_count |-> anomaly_count,
                       total_count |-> total_count,
                       anomaly_ratio |->
                           IF total_count > 0
                           THEN [num |-> 100 * anomaly_count, den |-> total_count]
                           ELSE [num |-> 0, den |-> 1]])

\* the anomaly statistics of the table detect_anomalies has just returned
AnomalyStatistics ==
    /\ op = "detect"
    /\ ret.kind = "table"
    /\ \E r \in {anomaly_statistics(ret.tbl)} : ret' = r
    /\ msgs' = <<>>
    /\ op' = "anomaly_stats"
    /\ UNCHANGED <<df, arg, rng, orig, first, ui>>

\* the analysis applied to the clean subset it has just produced
ReapplyCleanDataAnalysis ==
    /\ op = "clean"
    /\ ret.kind = "clean"
    /\ ret' = create_clean_data_analysis(
                  [df EXCEPT !.id = 1, !.rows = ret.loc.clean_df])
    /\ msgs' = <<>>
    /\ op' = "reclean"
    /\ arg' = 0
    /\ UNCHANGED <<df, rng, orig, first, ui>>

\* np.random.seed(42), then the draws of the 1000 rows
CreateSampleData ==
    /\ rng' = rnd(Seed(sample_seed))
    /\ ret' = RetTable(SampleData)
    /\ msgs' = <<>>
    /\ op' = "sample"
    /\ arg' = 0
    /\ UNCHANGED <<df, orig, first, ui>>

Next ==
    \/ UtilsValidate
    \/ StrictValidate
    \/ DetectAnomalies
    \/ AnomalyStatistics
    \/ CalculateKpis
    \/ CreateCleanDataAnalysis
    \/ CreateCleanDataVisualization
    \/ ReapplyCleanDataAnalysis
    \/ CreateDataQualityReport
    \/ CreateSampleData

Spec == Init /\ [][Next]_vars

----------------------------------------------------------------------------
(* Dashboard run: main() of app.py *)

\* rows of an uploaded file
MaxUploadRows == 2

\* An uploaded CSV file that read_csv can parse, with its table as read.
CsvFile(t) == [name |-> "csv", readable |-> TRUE, table |-> t]

\* A file that no read_csv attempt can parse.
BrokenCsvFile == [name |-> "csv", readable |-> FALSE, table |-> NoTable]

\* A file whose name contains 재무제표 or tasis, parseable or not.
TasisFile(readable) == [name |-> "tasis", readable |-> readable, table |-> NoTable]

\* Rows of uploaded files: two months; amounts that are numbers, text that
\* does not parse, or missing.
UploadRows ==
    {Row(m, "Sale", "Electronic", p[1], p[2]) :
        m \in {"2024-01", "2024-02"},
        p \in {<<Num(1), Num(1)>>, <<BadTxt, Num(1)>>, <<Num(1), NaNCell>>}}

\* Uploaded tables: with every required column, without 작성월, without 공급가액.
UploadTables ==
    {Table(cols, AsRead(rows)) :
        cols \in {AllRequired, AllRequired \ {"month"}, AllRequired \ {"supply"}},
        rows \in SeqsUpTo(UploadRows, MaxUploadRows)}

UploadedFiles ==
    {CsvFile(t) : t \in UploadTables}
    \cup {BrokenCsvFile, TasisFile(TRUE), TasisFile(FALSE)}

\* app.py:97-100: 전체 and the months of 2024 (two of them, and one without rows)
MonthFilters == {"all", "2024-01", "2024-02", "2024-03"}

\* app.py:104-111: the slider runs from 0.01 to 0.3
SliderContaminations == {1, 10, 30}

\* df.dropna(subset=[...]): a new table of the rows without a missing cell in
\* the columns of subset
dropna_subset(t, subset) ==
    [t EXCEPT !.id = 1,
              !.rows = SelectRows(t.rows,
                           [i \in 1..Len(t.rows) |->
                               \A c \in subset : ~IsNull(t.rows[i], c)],
                           1, Len(t.rows))]

\* utils.load_and_preprocess_data(uploaded_file): [df, msgs, sampled], sampled
\* when create_sample_data() ran (which reseeds the global generator)
load_and_preprocess_data(f) ==
    IF f = NoFile
    THEN [df |-> SampleData, msgs |-> <<>>, sampled |-> TRUE]
    ELSE IF ~f.readable
    THEN [df |-> SampleData, msgs |-> <<Msg("error", "load_error", <<>>)>>,
          sampled |-> TRUE]
    ELSE IF {"supply", "tax"} \subseteq f.table.cols
    THEN [df |-> dropna_subset(coerce_column(coerce_column(f.table, "supply"), "tax"),
                               {"supply", "tax"}),
          msgs |-> <<>>,
          sampled |-> FALSE]
    ELSE [df |-> SampleData,
          msgs |-> <<Msg("error", "missing_columns", <<"supply", "tax">>)>>,
          sampled |-> TRUE]

\* convert_to_tax_invoice_format / create_realistic_tax_data_from_financial_
\* statement: rows drawn from the global generator, 매출 and 매입 for every
\* month of 2024, 세액 = int(공급가액 * 0.1); two of them
GeneratedData ==
    [id |-> 2,
     cols |-> AllRequired,
     rows |-> <<Row("2024-01", "Sale", "Electronic", Num(80), Num(8)),
                Row("2024-02", "Purchase", "Paper", Num(40), Num(4))>>,
     dtype |-> [c \in {"supply", "tax"} |-> "num"]]

\* data_processor.process_tasis_data(uploaded_file): [df, msgs, sampled]; df is
\* None (NoTable) when the file cannot be read
process_tasis_data(f) ==
    IF f.readable
    THEN [df |-> GeneratedData, msgs |-> <<Msg("success", "tasis_loaded", <<>>)>>,
          sampled |-> FALSE]
    ELSE [df |-> NoTable, msgs |-> <<Msg("error", "tasis_load_failed", <<>>)>>,
          sampled |-> FALSE]

\* app.py:113-137, the load block of main: [stop, df, msgs, rng]. stop when
\* main returns (upload chosen, no file yet); rng is the global generator
\* afterwards (create_sample_data reseeds it, the TASIS conversion draws
\* from it).
main_load(u, g) ==
    LET sample(m) == [stop |-> FALSE, df |-> SampleData, msgs |-> m,
                      rng |-> rnd(Seed(sample_seed))]
    IN  IF u.data_source = "sample"
        THEN sample(<<Msg("success", "sample_loaded", <<>>)>>)
        ELSE IF u.uploaded_file # NoFile
        THEN LET f == u.uploaded_file
                 loaded == IF f.name = "tasis" THEN process_tasis_data(f)
                           ELSE load_and_preprocess_data(f)
                 g1 == IF loaded.sampled THEN rnd(Seed(sample_seed))
                       ELSE IF loaded.df = GeneratedData THEN rnd(g)
                       ELSE g
             IN  IF loaded.df # NoTable
                 THEN LET v == validate_tax_invoice_data(loaded.df)
                      IN  IF v.val
                          THEN [stop |-> FALSE, df |-> v.df,
                                msgs |-> loaded.msgs \o v.msgs
                                         \o <<Msg("success", "file_loaded", <<>>)>>,
                                rng |-> g1]
                          ELSE sample(loaded.msgs \o v.msgs
                                      \o <<Msg("warning", "using_sample_data", <<>>)>>)
                 ELSE sample(loaded.msgs
                             \o <<Msg("error", "using_sample_data", <<>>)>>)
        ELSE [stop |-> TRUE, df |-> NoTable,
              msgs |-> <<Msg("info", "upload_or_select", <<>>)>>, rng |-> g]

\* the table passed on without filtering
month_filter_rows_unfiltered(t, m) == t

\* app.py:140-141: df = df[df['작성월'] == month_filter], a new table
month_filter_rows(t, m) ==
    IF m = "all" THEN t
    ELSE [t EXCEPT !.id = 1, !.rows = RowsWhere(t, "month", m)]

\* app.py:150-200: the keys main reads from kpis, in the order it reads them
kpi_keys_read ==
    <<"total_Sale", "count_Sale", "total_Purchase", "count_Purchase",
      "total_Expense", "count_Expense", "total_Revenue", "count_Revenue",
      "total_tax", "avg_tax", "count_all", "electronic_ratio",
      "max_supply", "min_supply", "std_supply">>

RetDisplayed == [kind |-> "displayed", ok |-> TRUE, tbl |-> NoTable, exc |-> ""]

\* the KPI display step: kpis[key] raises KeyError at the first key that the
\* mapping lacks
display_kpis(kpis) ==
    IF Range(kpi_keys_read) \subseteq DOMAIN kpis THEN RetDisplayed
    ELSE RetRaise("KeyError")

\* The widgets of a run. The file uploader exists only with the upload source.
DashInit ==
    /\ ui \in {u \in [data_source : {"sample", "upload"},
                      uploaded_file : UploadedFiles \cup {NoFile},
                      month_filter : MonthFilters,
                      contamination : SliderContaminations] :
                 u.data_source = "sample" => u.uploaded_file = NoFile}
    /\ df = NoTable
    /\ orig = NoTable
    /\ ret = RetNone
    /\ msgs = <<>>
    /\ op = "dash_start"
    /\ arg = 0
    /\ rng = 0
    /\ first = RetNone

\* app.py:113-137; orig keeps the table as loaded
DashLoad ==
    /\ op = "dash_start"
    /\ \E r \in {main_load(ui, rng)} :
          /\ df' = r.df
          /\ orig' = r.df
          /\ msgs' = r.msgs
          /\ rng' = r.rng
          /\ op' = IF r.stop THEN "dash_stopped" ELSE "dash_loaded"
    /\ ret' = RetNone
    /\ UNCHANGED <<arg, first, ui>>

\* app.py:139-142
DashFilter ==
    /\ op = "dash_loaded"
    /\ df' = month_filter_rows(df, ui.month_filter)
    /\ msgs' = IF ui.month_filter # "all"
               THEN <<Msg("info", "month_only", <<ui.month_filter>>)>> ELSE <<>>
    /\ op' = "dash_filtered"
    /\ UNCHANGED <<ret, arg, rng, orig, first, ui>>

\* app.py:145
DashKpis ==
    /\ op = "dash_filtered"
    /\ \E r \in {calculate_kpis(df)} : ret' = r
    /\ msgs' = <<>>
    /\ op' = "dash_kpis"
    /\ UNCHANGED <<df, arg, rng, orig, first, ui>>

\* app.py:147-201; an exception ends the run
DashDisplay ==
    /\ op = "dash_kpis"
    /\ ret.kind = "kpis"
    /\ ret' = display_kpis(ret.kpis)
    /\ msgs' = <<>>
    /\ op' = "dash_display"
    /\ UNCHANGED <<df, arg, rng, orig, first, ui>>

DashNext ==
    \/ DashLoad
    \/ DashFilter
    \/ DashKpis
    \/ DashDisplay

DashSpec == DashInit /\ [][DashNext]_vars

----------------------------------------------------------------------------
(* Claims *)

TypesOf(t) == {t.rows[i].type : i \in 1..Len(t.rows)}
FormsOf(t) == {t.rows[i].form : i \in 1..Len(t.rows)}

\* C1: a table that lacks a required column is failed by both validators, the
\* one error names exactly the missing columns, and no later check runs (no
\* other message, no coercion of the table).
C1_MissingColumnsRejected ==
    (op \in {"validate", "strict_validate"} /\ ~(AllRequired \subseteq df.cols)) =>
        /\ ret = RetBool(FALSE)
        /\ Len(msgs) = 1
        /\ msgs[1].level = "error"
        /\ msgs[1].what = "missing_columns"
        /\ Range(msgs[1].vals) = AllRequired \ df.cols
        /\ Len(msgs[1].vals) = Cardinality(AllRequired \ df.cols)
        /\ df = orig

C1_Witness ==
    /\ op = "validate"
    /\ df.cols = AllRequired \ {"tax"}
    /\ df.rows = <<BadRow>>
    /\ ret = RetBool(FALSE)
    /\ msgs[1].vals = <<"tax">>

\* C2: the strict validator passes exactly the tables with all five columns,
\* numeric supply and tax, types within {Sale, Purchase} and forms within
\* {Electronic, Paper}; a value outside a set fails the table with an error
\* listing the offending values (of the first field that has any), and no row
\* is dropped.
C2_StrictVerdict ==
    op = "strict_validate" =>
        LET shape == /\ AllRequired \subseteq df.cols
                     /\ df.dtype["supply"] = "num"
                     /\ df.dtype["tax"] = "num"
            badT == TypesOf(df) \ {"Sale", "Purchase"}
            badF == FormsOf(df) \ {"Electronic", "Paper"}
        IN  /\ ret.kind = "bool"
            /\ ret.ok <=> (shape /\ badT = {} /\ badF = {})
            /\ (shape /\ badT # {}) =>
                   /\ Len(msgs) = 1
                   /\ msgs[1].level = "error"
                   /\ msgs[1].what = "invalid_types"
                   /\ Range(msgs[1].vals) = badT
            /\ (shape /\ badT = {} /\ badF # {}) =>
                   /\ Len(msgs) = 1
                   /\ msgs[1].level = "error"
                   /\ msgs[1].what = "invalid_forms"
                   /\ Range(msgs[1].vals) = badF
            /\ Len(df.rows) = Len(orig.rows)

C2_Witness ==
    /\ op = "strict_validate"
    /\ AllRequired \subseteq df.cols
    /\ df.dtype["supply"] = "num"
    /\ "Expense" \in TypesOf(df)
    /\ "Sale" \in TypesOf(df)
    /\ ret = RetBool(FALSE)
    /\ msgs[1].vals = <<"Expense">>

\* C3: the lenient validator passes every table that has the five columns;
\* its only messages are warnings, one listing the types outside {Sale,
\* Purchase, Expense, Revenue} and one listing the forms outside {Electronic,
\* Paper}, each present exactly when there is such a value.
C3_LenientWarnsOnly ==
    (op = "validate" /\ AllRequired \subseteq df.cols) =>
        LET badT == TypesOf(df) \ {"Sale", "Purchase", "Expense", "Revenue"}
            badF == FormsOf(df) \ {"Electronic", "Paper"}
        IN  /\ ret = RetBool(TRUE)
            /\ \A i \in 1..Len(msgs) : msgs[i].level = "warning"
            /\ {<<msgs[i].what, Range(msgs[i].vals)>> : i \in 1..Len(msgs)}
                 = (IF badT # {} THEN {<<"invalid_types", badT>>} ELSE {})
                   \cup (IF badF # {} THEN {<<"invalid_forms", badF>>} ELSE {})
            /\ Len(msgs) <= 2

C3_Witness ==
    /\ op = "validate"
    /\ AllRequired \subseteq df.cols
    /\ "Other" \in TypesOf(df)
    /\ "Expense" \in TypesOf(df)
    /\ "Fax" \in FormsOf(df)
    /\ ret = RetBool(TRUE)
    /\ Len(msgs) = 2

\* The cells of the input columns of a row (the label column left out).
InputCells(row) == [c \in AllRequired \cup {"account"} |-> row[c]]

\* A table detect_anomalies can fit: the five columns, every amount a number.
Fittable(t) ==
    /\ AllRequired \subseteq t.cols
    /\ \A i \in 1..Len(t.rows) : t.rows[i].supply.k = "num" /\ t.rows[i].tax.k = "num"

\* C4: no operation changes the table it is given (same columns, same cell
\* values after any sequence of calls), and a table that detect_anomalies
\* returns is an object other than its input.
C4_InputNeverMutated ==
    /\ df.cols = orig.cols
    /\ df.rows = orig.rows
    /\ (op = "detect" /\ ret.kind = "table") => ret.tbl.id # df.id

\* C5: for a contamination in (0,1), detect_anomalies returns the rows of its
\* input, in order and with the same value in every input column, and exactly
\* one more column, the label, which is -1 or 1 in every row. (Read in the
\* claim's favour: only tables with the five columns and numeric amounts, and
\* only the contaminations the library accepts.)
C5_InputPlusLabelColumn ==
    (op = "detect" /\ 0 < arg /\ arg <= 50 /\ Fittable(df)) =>
        /\ ret.kind = "table"
        /\ "anomaly" \notin df.cols
        /\ ret.tbl.cols = df.cols \cup {"anomaly"}
        /\ Len(ret.tbl.rows) = Len(df.rows)
        /\ \A i \in 1..Len(df.rows) :
              /\ InputCells(ret.tbl.rows[i]) = InputCells(df.rows[i])
              /\ ret.tbl.rows[i].anomaly \in {-1, 1}

\* C6: a detect_anomalies call with the rows and the contamination of the
\* first fitted call returns the labels of that call, whatever ran in between
\* and whatever the state of the global random generator.
C6_Deterministic ==
    (/\ op = "detect"
     /\ first.kind = "call"
     /\ ret.kind = "table"
     /\ ret.tbl.id = 1
     /\ arg = first.c
     /\ df.rows = first.rows) =>
        Column(ret.tbl, "anomaly") = first.labels

\* a second call, after create_sample_data reseeded and advanced the global
\* generator, on a table in which some row is anomalous and some is not
C6_Witness ==
    /\ op = "detect"
    /\ first.kind = "call"
    /\ first.g = 0
    /\ rng # 0
    /\ ret.kind = "table"
    /\ ret.tbl.id = 1
    /\ arg = first.c
    /\ df.rows = first.rows
    /\ \E i, j \in 1..Len(first.labels) : first.labels[i] = -1 /\ first.labels[j] = 1

\* C7: a contamination outside (0,1) is refused with a parameter error, and
\* one inside (0,1) is accepted (on a table the model can fit).
C7_ContaminationValidated ==
    op = "detect" =>
        /\ (arg <= 0 \/ arg >= 100) => ret = RetRaise("ValueError")
        /\ (0 < arg /\ arg < 100 /\ Fittable(df)) => ret.kind = "table"

\* spec.md: fewer than about 10 rows, or zero variance in either feature
Degenerate(t) ==
    \/ Len(t.rows) < 10
    \/ Cardinality({t.rows[i].supply : i \in 1..Len(t.rows)}) <= 1
    \/ Cardinality({t.rows[i].tax : i \in 1..Len(t.rows)}) <= 1

\* C8: on a degenerate table (fewer than about 10 rows, or a constant supply
\* or tax column) detect_anomalies does not raise and labels every row normal.
\* (Read in the claim's favour: a table the model can fit and a contamination
\* the library accepts.)
C8_DegenerateAllNormal ==
    (op = "detect" /\ 0 < arg /\ arg <= 50 /\ Fittable(df) /\ Degenerate(df)) =>
        /\ ret.kind = "table"
        /\ \A i \in 1..Len(ret.tbl.rows) :
              "anomaly" \in ret.tbl.cols => ret.tbl.rows[i].anomaly = 1

\* the rows a returned table labels anomalous
Flagged(t) == {i \in 1..Len(t.rows) : t.rows[i].anomaly = -1}

RECURSIVE SortRange(_, _, _)
SortRange(v, lo, hi) ==
    IF lo > hi THEN <<>>
    ELSE IF lo = hi
    THEN [k \in 1..Cardinality({i \in 1..Len(v) : v[i] = lo}) |-> lo]
    ELSE SortRange(v, lo, (lo + hi) \div 2) \o SortRange(v, (lo + hi) \div 2 + 1, hi)

\* v in ascending order
SortAsc(v) ==
    IF v = <<>> THEN <<>> ELSE SortRange(v, SetMin(Range(v)), SetMax(Range(v)))

\* 4 times the q-th quartile of the ascending, non-empty s: the value at
\* position q (n - 1) / 4 (from 0), interpolated between its two neighbours
Quartile4(s, q) ==
    LET n == Len(s)
        lo == (q * (n - 1)) \div 4
        fr == (q * (n - 1)) % 4
    IN  IF fr = 0 THEN 4 * s[lo + 1]
        ELSE (4 - fr) * s[lo + 1] + fr * s[lo + 2]

\* The rows of a column the claim's rule flags: the numbers strictly below
\* Q1 - 1.5 IQR or strictly above Q3 + 1.5 IQR (all sides times 8), Q1 and Q3
\* the quartiles of the numbers of the column.
RuleFlags(cells) ==
    LET flagged(Q1, Q3) ==
            {i \in 1..Len(cells) :
                /\ cells[i].k = "num"
                /\ \/ 8 * cells[i].v < 2 * Q1 - 3 * (Q3 - Q1)
                   \/ 8 * cells[i].v > 2 * Q3 + 3 * (Q3 - Q1)}
    IN  Only({IF s = <<>> THEN {}
              ELSE Only({flagged(q[1], q[2])
                         : q \in {<<Quartile4(s, 1), Quartile4(s, 3)>>}})
              : s \in {SortAsc(NumbersOf(cells))}})

\* C10: the filter flags a supply (tax) value exactly when it is strictly
\* below Q1 - 1.5 IQR or strictly above Q3 + 1.5 IQR of its column; a value
\* equal to a bound and a missing value are not flagged.
C10_IqrRule ==
    (op = "clean" /\ ret.kind = "clean") =>
        /\ {i \in 1..Len(df.rows) : ret.loc.supply_outliers[i]}
              = RuleFlags(Column(df, "supply"))
        /\ {i \in 1..Len(df.rows) : ret.loc.tax_outliers[i]}
              = RuleFlags(Column(df, "tax"))

\* supply NaN, NaN, NaN, 1: the one number is both bounds and is not flagged,
\* nor are the missing cells; tax 0, 0, 0, 1: the 1 is above the upper bound
C10_Witness ==
    /\ op = "clean"
    /\ ret.kind = "clean"
    /\ Column(df, "supply") = <<Num(1), NaNCell, NaNCell, NaNCell>>
    /\ Column(df, "tax") = <<Num(1), Num(0), Num(0), Num(0)>>
    /\ ret.loc.supply_outliers = <<FALSE, FALSE, FALSE, FALSE>>
    /\ ret.loc.tax_outliers = <<TRUE, FALSE, FALSE, FALSE>>

\* whether a row lacks one of the five required fields
MissingRequired(row) == \E c \in AllRequired : IsNull(row, c)

\* C11: a row is removed from the clean subset exactly when it lacks a
\* required field or its supply is flagged or its tax is flagged; every other
\* row, also one that lacks only the optional account, is kept.
C11_RemovedIffUnclean ==
    (op = "clean" /\ ret.kind = "clean") =>
        ret.loc.clean_df =
            SelectRows(df.rows,
                       [i \in 1..Len(df.rows) |->
                           /\ ~MissingRequired(df.rows[i])
                           /\ i \notin RuleFlags(Column(df, "supply"))
                           /\ i \notin RuleFlags(Column(df, "tax"))],
                       1, Len(df.rows))

\* C12: the filter applied to its own clean subset removes no further row:
\* the clean subset of the clean subset is the clean subset.
C12_FilterIdempotent ==
    (op = "reclean" /\ ret.kind = "clean") =>
        /\ ret.stats.removed_count = 0
        /\ Len(ret.loc.clean_df) = ret.stats.original_count

\* C13: the summary of a non-empty table has the input's row count as
\* original count, removed = original - clean, 0 <= clean <= original, and
\* quality ratio = clean / original x 100, which lies within [0, 100]
\* (the ratio is quality_ratio_num / ratio_den).
C13_SummaryCounts ==
    (op = "clean" /\ ret.kind = "clean") =>
        LET st == ret.stats
        IN  /\ st.original_count = Len(df.rows)
            /\ st.original_count > 0
            /\ st.clean_count = Len(ret.loc.clean_df)
            /\ st.removed_count = st.original_count - st.clean_count
            /\ 0 <= st.clean_count
            /\ st.clean_count <= st.original_count
            /\ st.ratio_den = st.original_count
            /\ st.quality_ratio_num = 100 * st.clean_count
            /\ 0 <= st.quality_ratio_num
            /\ st.quality_ratio_num <= 100 * st.ratio_den

\* four rows of which one is removed: quality ratio 75%
C13_Witness ==
    /\ op = "clean"
    /\ ret.kind = "clean"
    /\ Len(df.rows) = 4
    /\ ret.stats.clean_count = 3
    /\ ret.stats.removed_count = 1
    /\ ret.stats.quality_ratio_num = 300
    /\ ret.stats.ratio_den = 4

\* C14: whenever the clean subset is not empty, the analysis reports sum,
\* mean, std and count of the clean subset for every group of each of the
\* three groupings: by type, by form and by month.
C14_GroupedStatistics ==
    (op = "clean" /\ ret.kind = "clean" /\ Len(ret.loc.clean_df) > 0) =>
        \A grouping \in {"type_stats", "form_stats", "monthly_stats"} :
            /\ grouping \in DOMAIN ret.detailed
            /\ \A g \in DOMAIN ret.detailed[grouping] :
                  {"sum", "mean", "std", "count"}
                      \subseteq DOMAIN ret.detailed[grouping][g].supply

\* C15: for every non-empty table the quality report lists, for each column,
\* its number of missing values and, separately for supply and for tax, the
\* number of values flagged by that field's own IQR rule, not the number of
\* rows flagged by either.
C15_ReportCountsPerField ==
    (op = "report" /\ ret.kind = "report" /\ ~df_empty(df)) =>
        /\ ~ret.report.no_data
        /\ DOMAIN ret.report.missing = df.cols
        /\ \A c \in df.cols :
              ret.report.missing[c]
                  = Cardinality({i \in 1..Len(df.rows) : IsNull(df.rows[i], c)})
        /\ ret.report.supply_outlier_count
              = Cardinality(RuleFlags(Column(df, "supply")))
        /\ ret.report.tax_outlier_count
              = Cardinality(RuleFlags(Column(df, "tax")))

\* supply 2, 0, 0, 0 flags the 2, the constant tax flags nothing: the two
\* counts differ
C15_Witness ==
    /\ op = "report"
    /\ ret.kind = "report"
    /\ Column(df, "supply") = <<Num(0), Num(0), Num(0), Num(2)>>
    /\ Column(df, "tax") = <<Num(0), Num(0), Num(0), Num(0)>>
    /\ ret.report.supply_outlier_count = 1
    /\ ret.report.tax_outlier_count = 0

\* the verdict of the quality filter on table t: what the analysis and the
\* report return, the cells of the clean rows taken without the label
QualityVerdict(t) ==
    LET a == create_clean_data_analysis(t)
        r == create_data_quality_report(t)
    IN  [analysis |-> IF a.kind # "clean" THEN a
                      ELSE [stats |-> a.stats,
                            supply_outliers |-> a.loc.supply_outliers,
                            tax_outliers |-> a.loc.tax_outliers,
                            clean_df |-> [i \in 1..Len(a.loc.clean_df) |->
                                             InputCells(a.loc.clean_df[i])],
                            detailed |-> a.detailed],
         report |-> IF r.kind # "report" \/ r.report.no_data THEN r
                    ELSE [r.report EXCEPT
                             !.missing = [c \in DOMAIN @ \ {"anomaly"} |-> @[c]]]]

\* C16: the quality filter is independent of the outlier model. The table the
\* dashboard hands to the filter never carries the label, whatever ran before
\* and with whatever contamination; and the filter does not read the label:
\* on the labelled table that detect_anomalies returns, for every contamination,
\* its clean subset, summary counts and report are those of the original table.
C16_FilterIndependentOfModel ==
    /\ "anomaly" \notin df.cols
    /\ \A i \in 1..Len(df.rows) : df.rows[i].anomaly = 0
    /\ (op \in {"clean", "report"} /\ ret.kind \in {"clean", "report"}) =>
          /\ ret = (IF op = "clean" THEN create_clean_data_analysis(df)
                    ELSE create_data_quality_report(df))
          /\ ret.kind = "clean" =>
                \A i \in 1..Len(ret.loc.clean_df) : ret.loc.clean_df[i].anomaly = 0
    /\ (op = "detect" /\ ret.kind = "table" /\ "anomaly" \in ret.tbl.cols) =>
          QualityVerdict(ret.tbl) = QualityVerdict(df)

\* the model labels a row anomalous that the filter keeps, and the filter
\* removes a row that the model labels normal
C16_Witness ==
    /\ op = "detect"
    /\ ret.kind = "table"
    /\ "anomaly" \in ret.tbl.cols
    /\ first.kind = "call"
    /\ arg # first.c
    /\ \E i \in 1..Len(df.rows) :
          /\ ret.tbl.rows[i].anomaly = -1
          /\ InputCells(df.rows[i])
                \in {QualityVerdict(ret.tbl).analysis.clean_df[j]
                      : j \in 1..Len(QualityVerdict(ret.tbl).analysis.clean_df)}

\* the supply of rows lo..hi of type ty added up row by row, a missing supply
\* adding nothing
RECURSIVE PlainSum(_, _, _, _)
PlainSum(rows, ty, lo, hi) ==
    IF lo > hi THEN 0
    ELSE IF lo = hi
    THEN (IF rows[lo].type = ty /\ rows[lo].supply.k = "num"
          THEN rows[lo].supply.v ELSE 0)
    ELSE PlainSum(rows, ty, lo, (lo + hi) \div 2)
         + PlainSum(rows, ty, (lo + hi) \div 2 + 1, hi)

\* C17: for every non-empty table, the electronic-issuance ratio returned by
\* calculate_kpis is 100 times the number of rows with form Electronic over the
\* number of rows, and each per-type total and count is the plain sum of the
\* supply and the number of rows over all rows of that type, no row excluded
\* as an outlier.
C17_PlainRatioAndTotals ==
    (op = "kpis" /\ ret.kind = "kpis" /\ ~df_empty(df)) =>
        LET n == Len(df.rows)
            count(ty) == Cardinality({i \in 1..n : df.rows[i].type = ty})
        IN  /\ ret.kpis.electronic_ratio.den = n
            /\ ret.kpis.electronic_ratio.num
                  = 100 * Cardinality({i \in 1..n : df.rows[i].form = "Electronic"})
            /\ ret.kpis.total_Sale = PlainSum(df.rows, "Sale", 1, n)
            /\ ret.kpis.total_Purchase = PlainSum(df.rows, "Purchase", 1, n)
            /\ ret.kpis.total_Expense = PlainSum(df.rows, "Expense", 1, n)
            /\ ret.kpis.total_Revenue = PlainSum(df.rows, "Revenue", 1, n)
            /\ ret.kpis.count_Sale = count("Sale")
            /\ ret.kpis.count_Purchase = count("Purchase")
            /\ ret.kpis.count_Expense = count("Expense")
            /\ ret.kpis.count_Revenue = count("Revenue")

\* supply 2, 0, 0, 0: the IQR rule flags the 2, and the total still counts it
C17_Witness ==
    /\ op = "kpis"
    /\ ret.kind = "kpis"
    /\ Column(df, "supply") = <<Num(0), Num(0), Num(0), Num(2)>>
    /\ RuleFlags(Column(df, "supply")) = {4}
    /\ ret.kpis.total_Sale = 2
    /\ ret.kpis.count_Sale = 4
    /\ ret.kpis.electronic_ratio = [num |-> 400, den |-> 4]

\* a non-empty table that passes validation: the five columns, numeric amounts
ValidatedNonEmpty(t) ==
    /\ AllRequired \subseteq t.cols
    /\ Len(t.rows) > 0
    /\ t.dtype["supply"] = "num"
    /\ t.dtype["tax"] = "num"

\* C18: for every validated non-empty table, the mapping calculate_kpis
\* returns holds the total and the count per transaction type, the electronic
\* ratio, the maximum, minimum and standard deviation of the supply, and the
\* average tax (written avg_tax).
C18_KpiMappingComplete ==
    (op = "kpis" /\ ValidatedNonEmpty(df)) =>
        /\ ret.kind = "kpis"
        /\ {"total_Sale", "total_Purchase", "total_Expense", "total_Revenue",
            "count_Sale", "count_Purchase", "count_Expense", "count_Revenue",
            "electronic_ratio", "max_supply", "min_supply", "std_supply",
            "avg_tax"} \subseteq DOMAIN ret.kpis

\* C19: when a division of the KPI aggregator would be by zero, calculate_kpis
\* does not raise and the affected KPI is a sentinel, zero or NaN: on an empty
\* table the electronic ratio, and for a transaction type without rows its
\* total and count.
C19_ZeroDivisionSentinel ==
    (op = "kpis" /\ {"type", "supply", "form"} \subseteq df.cols
     /\ df.dtype["supply"] = "num") =>
        /\ ret.kind = "kpis"
        /\ "electronic_ratio" \in DOMAIN ret.kpis
        /\ Len(df.rows) = 0 =>
              ret.kpis.electronic_ratio \in {[num |-> 0, den |-> 1], NaNCell}
        /\ (\A i \in 1..Len(df.rows) : df.rows[i].type # "Purchase") =>
              (ret.kpis.total_Purchase = 0 /\ ret.kpis.count_Purchase = 0)

\* an empty table, a 1-row table, or a table whose supply and tax are constant
DegenerateShape(t) ==
    \/ Len(t.rows) <= 1
    \/ /\ Cardinality(Range(Column(t, "supply"))) = 1
       /\ Cardinality(Range(Column(t, "tax"))) = 1

\* C20: on an empty table, on a 1-row table and on a table whose supply and
\* tax are constant, calculate_kpis, detect_anomalies, create_clean_data_analysis
\* and create_data_quality_report each return a defined result and do not
\* raise. (Read in the claim's favour: a table with the five columns whose
\* amounts are numbers, and a contamination the library accepts.)
C20_DegenerateTablesNoCrash ==
    (Fittable(df) /\ DegenerateShape(df)) =>
        /\ op = "kpis" => ret.kind = "kpis"
        /\ (op = "detect" /\ 0 < arg /\ arg <= 50) => ret.kind = "table"
        /\ op = "clean" => ret.kind \in {"clean", "nodata"}
        /\ op = "report" => ret.kind = "report"

\* the KPIs of a 1-row table: the standard deviation is NaN, nothing raises
C20_Witness ==
    /\ op = "kpis"
    /\ Fittable(df)
    /\ Len(df.rows) = 1
    /\ ret.kind = "kpis"
    /\ ret.kpis.std_supply.k = "nan"
    /\ ret.kpis.max_supply = ret.kpis.min_supply

\* the rows of t whose supply or tax is text that is not a number
Unconvertible(t) ==
    {i \in 1..Len(t.rows) :
        t.rows[i].supply.k = "badtxt" \/ t.rows[i].tax.k = "badtxt"}

\* C21: when the supply or tax column of an uploaded table holds values that
\* cannot be converted to numbers, the table the dashboard goes on with holds
\* none of the affected rows (nor a zero in their place), and a message tells
\* the caller how many rows were excluded.
C21_ExcludedRowsReported ==
    (op = "dash_loaded"
     /\ ui.uploaded_file.name = "csv" /\ ui.uploaded_file.readable
     /\ AllRequired \subseteq ui.uploaded_file.table.cols
     /\ Unconvertible(ui.uploaded_file.table) # {}) =>
        /\ Len(df.rows) = Len(ui.uploaded_file.table.rows)
                             - Cardinality({i \in 1..Len(ui.uploaded_file.table.rows) :
                                   to_numeric(ui.uploaded_file.table.rows[i].supply).k = "nan"
                                   \/ to_numeric(ui.uploaded_file.table.rows[i].tax).k = "nan"})
        /\ \A i \in 1..Len(df.rows) :
              df.rows[i].supply.k = "num" /\ df.rows[i].tax.k = "num"
        /\ \E j \in 1..Len(msgs) :
              /\ msgs[j].what = "excluded_rows"
              /\ msgs[j].vals = <<Cardinality(Unconvertible(ui.uploaded_file.table))>>

\* C22: when the labelled table holds no anomalous row, the risk scorer
\* returns score 0, level Low and an empty insight list.
C22_NoAnomaliesZeroRisk ==
    (op = "anomaly_stats" /\ ret.kind = "stats" /\ ret.stats.anomaly_count = 0) =>
        /\ {"score", "level", "insights"} \subseteq DOMAIN ret.stats
        /\ ret.stats.score = 0
        /\ ret.stats.level = "Low"
        /\ ret.stats.insights = <<>>

\* C23: the risk score lies in [0, 100] (and increases strictly with the
\* anomaly rate and with the ratio of the anomalous mean to the normal mean
\* of the supply).
C23_RiskScoreRange ==
    (op = "anomaly_stats" /\ ret.kind = "stats") =>
        /\ "score" \in DOMAIN ret.stats
        /\ 0 <= ret.stats.score
        /\ ret.stats.score <= 100

\* the rows of the loaded table whose month is the selected one, in order
RowsOfSelectedMonth ==
    SelectSeq(orig.rows, LAMBDA r : r.month = ui.month_filter)

\* C24: in a dashboard run with a month selected, the table the core
\* computations receive holds exactly the rows of the loaded table whose
\* month is the selected one, and the KPIs are those of these rows.
C24_FilterBeforeCore ==
    (op \in {"dash_filtered", "dash_kpis", "dash_display"}
        /\ ui.month_filter # "all") =>
        /\ df.cols = orig.cols
        /\ df.rows = RowsOfSelectedMonth
        /\ op = "dash_kpis" =>
               ret = calculate_kpis([orig EXCEPT !.id = 1,
                                                 !.rows = RowsOfSelectedMonth])

C24_Witness ==
    /\ op = "dash_kpis"
    /\ ui.month_filter # "all"
    /\ ret.kind = "kpis"
    /\ Len(df.rows) > 0
    /\ Len(df.rows) < Len(orig.rows)

\* a table with the five required columns whose amounts are all numbers
PassedValidation(t) ==
    /\ AllRequired \subseteq t.cols
    /\ \A i \in 1..Len(t.rows) :
           t.rows[i].supply.k = "num" /\ t.rows[i].tax.k = "num"

\* C25: with the upload source and no file the run stops before any
\* analysis; otherwise the table that is analysed is the sample data or a
\* table of the upload that has the required columns and numeric amounts,
\* and a replacement of the upload by sample data comes with an error or a
\* warning.
C25_OnlyLoadedAndValidated ==
    /\ (ui.data_source = "upload" /\ ui.uploaded_file = NoFile) =>
           /\ op \in {"dash_start", "dash_stopped"}
           /\ df = NoTable
           /\ ret = RetNone
    /\ op = "dash_stopped" =>
           (ui.data_source = "upload" /\ ui.uploaded_file = NoFile)
    /\ op \in {"dash_loaded", "dash_filtered", "dash_kpis", "dash_display"} =>
           \/ orig = SampleData
           \/ /\ ui.data_source = "upload"
              /\ ui.uploaded_file # NoFile
              /\ ui.uploaded_file.readable
              /\ PassedValidation(orig)
              /\ \/ orig = GeneratedData
                 \/ orig.cols = ui.uploaded_file.table.cols
    /\ (op = "dash_loaded" /\ ui.data_source = "upload" /\ orig = SampleData) =>
           \E k \in 1..Len(msgs) : msgs[k].level \in {"error", "warning"}

C25_Witness ==
    /\ op = "dash_kpis"
    /\ ret.kind = "kpis"
    /\ ui.data_source = "upload"
    /\ ui.uploaded_file # NoFile
    /\ ui.uploaded_file.readable
    /\ ui.uploaded_file.name = "csv"
    /\ "month" \notin ui.uploaded_file.table.cols
    /\ Len(ui.uploaded_file.table.rows) > 0
    /\ orig = SampleData

\* C26: for every table that reaches the KPI display step, the mapping of
\* calculate_kpis holds every key main reads, and the display completes.
C26_DisplayReadsPresentKeys ==
    /\ (op = "dash_kpis" /\ ret.kind = "kpis") =>
           Range(kpi_keys_read) \subseteq DOMAIN ret.kpis
    /\ op = "dash_display" => ret = RetDisplayed

\* C27: for a table with rows on which the analysis, the chart and the report
\* all return, the clean count, the removed count and the quality ratio
\* shown by the three are equal.
C27_ThreeFiltersAgree ==
    (op = "visualization" /\ ret.kind = "figures" /\ Len(df.rows) > 0) =>
        \A a \in {create_clean_data_analysis(df)} :
        \A r \in {create_data_quality_report(df)} :
            (a.kind = "clean" /\ r.kind = "report") =>
                /\ ret.quality.values[2] = a.stats.clean_count
                /\ ret.quality.values[3] = a.stats.removed_count
                /\ r.report.clean_count = a.stats.clean_count
                /\ r.report.removed_count = a.stats.removed_count
                /\ r.report.quality_ratio_num * a.stats.ratio_den
                       = a.stats.quality_ratio_num * r.report.total
                /\ ret.quality.percent[2].num * a.stats.ratio_den
                       = a.stats.quality_ratio_num * ret.quality.percent[2].den

====
